---- MODULE Spec2Model ----
(***************************************************************************)
(* Model of src/EOG程式.py: the EOG event detector analyze_and_plot and    *)
(* the interactive session loop main.                                      *)
(*                                                                         *)
(* Units.  Times are integers in milliseconds (time_interval 0.002 s = 2,  *)
(* time_advance 0.05 s = 50, threshold_duration 0.4 s = 400, cooldown_time *)
(* 0.5 s = 500).  Voltages read from the table are integers in an          *)
(* arbitrary unit; a smoothed value is kept as the exact window sum, that  *)
(* is as the mean multiplied by window_size, and every comparison with a   *)
(* smoothed value multiplies the other side by window_size as well, so     *)
(* the comparisons are those of the code in exact arithmetic.  A value     *)
(* that pandas leaves undefined is the record NaN, and every comparison    *)
(* with it is false, as for a float NaN.  Python's None is the empty       *)
(* tuple and a value x that may be None is <<x>>.                          *)
(*                                                                         *)
(* Arithmetic is exact.  The program computes times in binary floating     *)
(* point, where a comparison of two times that are equal as real numbers   *)
(* (a duration of exactly 0.4 s, a sample exactly 0.5 s after an end_time) *)
(* can fall on either side; 25 * 0.002 - 0.05 is exactly 0.0 there too.    *)
(***************************************************************************)
EXTENDS Integers, Sequences, FiniteSets, TLC

VARIABLES
    pc,                    \* position inside analyze_and_plot
    tbl,                   \* the input table (file contents) being analysed
    output_plot_path,      \* argument of analyze_and_plot
    vertical_baseline, horizontal_baseline,
    vertical_threshold, horizontal_threshold,
    i,                     \* loop index of the scan
    start_time, is_in_event, last_event_end_time, triggering_type,
    events,                \* list of (start_time, end_time, event_type, direction)
    plot_file,             \* path the plot was saved to, None if not saved
    log_printed,           \* the "=== Detected Events ===" list was printed
    hist,                  \* history: per emitted event its channel, opening and closing index
    exits,                 \* history: number of closing branches taken
    session_pc, default_output_path, choice, reported, session_plot

detVars == <<pc, tbl, output_plot_path, vertical_baseline, horizontal_baseline,
             vertical_threshold, horizontal_threshold, i, start_time, is_in_event,
             last_event_end_time, triggering_type, events, plot_file, log_printed,
             hist, exits>>
sesVars == <<session_pc, default_output_path, choice, reported, session_plot>>
vars == <<detVars, sesVars>>

None == <<>>
Some(x) == <<x>>
NaN == [nan |-> TRUE, val |-> 0]
Num(x) == [nan |-> FALSE, val |-> x]
Abs(x) == IF x < 0 THEN -x ELSE x

(* ---------------- program constants ---------------- *)
time_interval == 2
window_size == 15
threshold_duration == 400
cooldown_time == 500
time_advance == 50
band_factor == 3

(* ---------------- bounds of the model ---------------- *)
ShortLen == 56
LongLen == 312

(* ---------------- the input table ---------------- *)
\* A column name as written in the file: its letters and how it is written.
\* "plain" is lower case without surrounding blanks, "upper" is upper case,
\* "padded" has surrounding blanks.
Column(name, style) == <<name, style>>

\* data.columns.str.strip().str.lower(): blanks and case are removed, the
\* letters stay.
CleanColumn(c) == Column(c[1], "plain")
CleanColumns(cols) == {CleanColumn(c) : c \in cols}

required_columns ==
    {Column(nm, "plain") : nm \in {"voltage", "voltage_0", "voltage (dc voltage)",
        "voltage_0 (dc voltage)", "voltage (positive peak)",
        "voltage_0 (negative peak)", "voltage_0 (positive peak)"}}

\* not all(col in data.columns for col in required_columns)
MissingAllColumns(cols) == ~(\E col \in required_columns : col \in cols)
MissingColumns(cols) == ~(\A col \in required_columns : col \in cols)

\* A raw channel is described by its pulses: the value is the amplitude a
\* inside a pulse's sample range s..e and 0 outside every pulse.  The pulses
\* of one channel do not overlap.
Pulse(s, e, a) == [s |-> s, e |-> e, a |-> a]
Max(a, b) == IF a > b THEN a ELSE b
Min(a, b) == IF a < b THEN a ELSE b

\* data['time'] = [i * time_interval for i in range(len(data))]
Time(k) == k * time_interval

(* ---------------- smoothing ---------------- *)
\* The sum of the raw values at the positions lo..hi: each pulse adds its
\* amplitude once for every position it shares with lo..hi.
RECURSIVE PulseSum(_, _, _, _)
PulseSum(pulses, k, lo, hi) ==
    IF k > Len(pulses) THEN 0
    ELSE pulses[k].a * Max(0, Min(hi, pulses[k].e) - Max(lo, pulses[k].s) + 1)
         + PulseSum(pulses, k + 1, lo, hi)
WindowSum(pulses, lo, hi) == PulseSum(pulses, 1, lo, hi)

\* A moving sum that pads the series with zeros past either edge, so that
\* every position has a value.
moving_average_padded(pulses, n, w, k) ==
    LET half == (w - 1) \div 2
    IN  Num(WindowSum(pulses, Max(0, k - half), Min(n - 1, k + half)))

\* data.rolling(window=window_size, center=True).mean() at position k of a
\* series of n values: the window is k - (w-1)/2 .. k + (w-1)/2 for odd w,
\* and the value is undefined unless all w positions exist.  The result is
\* the window sum (the mean times w).
moving_average(pulses, n, w, k) ==
    LET half == (w - 1) \div 2
    IN  IF k - half < 0 \/ k + half > n - 1 THEN NaN
        ELSE Num(WindowSum(pulses, k - half, k + half))

voltage_smooth(t, k) == moving_average(t.V, t.n, window_size, k)
voltage_0_smooth(t, k) == moving_average(t.H, t.n, window_size, k)

\* abs(x - baseline) >= threshold, x a smoothed value (False for NaN)
DevGE(x, baseline, threshold) ==
    ~x.nan /\ Abs(x.val - window_size * baseline) >= window_size * threshold
\* abs(x - baseline) <= threshold
DevLE(x, baseline, threshold) ==
    ~x.nan /\ Abs(x.val - window_size * baseline) <= window_size * threshold
\* x > baseline
Above(x, baseline) == ~x.nan /\ x.val > window_size * baseline

(* ---------------- thresholds read from the first row ---------------- *)
\* The smaller of the two magnitudes.
HorizontalThresholdOfMagnitudes(neg, pos) == Min(Abs(neg), Abs(pos))
HorizontalThreshold(neg, pos) == IF neg < pos THEN neg ELSE pos

(* ---------------- nearest-time lookup ---------------- *)
\* (data['time'] - end_time).abs().argmin(): the first position of the
\* smallest distance.
\* The search splits the range in halves; of two equal distances the
\* earlier position wins.
RECURSIVE ArgMin(_, _, _)
ArgMin(t, lo, hi) ==
    IF lo = hi THEN lo
    ELSE LET mid == (lo + hi) \div 2
             a == ArgMin(t, lo, mid)
             b == ArgMin(t, mid + 1, hi)
         IN  IF Abs(Time(b) - t) < Abs(Time(a) - t) THEN b ELSE a
NearestIndex(n, t) == ArgMin(t, 0, n - 1)

(* ---------------- the detector: one iteration of the scan ---------------- *)
\* Python truth value of a float that may be None: None and 0.0 are false.
Truthy(x) == x # None /\ x[1] # 0

\* if last_event_end_time and current_time < last_event_end_time + cooldown_time
CooldownGate(last, current_time) ==
    Truthy(last) /\ current_time < last[1] + cooldown_time

\* abs(current_vertical - vertical_baseline) >= vertical_threshold or
\* abs(current_horizontal - horizontal_baseline) >= 3*horizontal_threshold
VerticalEntry(th, cv) == DevGE(cv, th.vb, th.vt)
HorizontalEntryUnscaled(th, ch) == DevGE(ch, th.hb, th.ht)
HorizontalEntry(th, ch) == DevGE(ch, th.hb, band_factor * th.ht)
EntryVerticalOnly(th, cv, ch) == VerticalEntry(th, cv)
EntryCondition(th, cv, ch) == VerticalEntry(th, cv) \/ HorizontalEntry(th, ch)

\* triggering_type at the opening sample
TriggeringTypeAlone(th, cv, ch) ==
    IF HorizontalEntry(th, ch) /\ ~VerticalEntry(th, cv) THEN "horizontal" ELSE "vertical"
TriggeringType(th, cv, ch) ==
    IF HorizontalEntry(th, ch) THEN "horizontal" ELSE "vertical"

HorizontalExitUnscaled(th, ch) == DevLE(ch, th.hb, th.ht)
HorizontalExit(th, ch) == DevLE(ch, th.hb, band_factor * th.ht)
VerticalExitBelow(th, cv) == DevLE(cv, th.vb, th.vt \div band_factor)
VerticalExit(th, cv) == DevLE(cv, th.vb, band_factor * th.vt)

\* end_time = current_time - time_advance
EndTimeNoAdvance(current_time) == current_time
EndTime(current_time) == current_time - time_advance

HorizontalWordOrEqual(th, end_horizontal) ==
    IF ~end_horizontal.nan /\ end_horizontal.val >= window_size * th.hb
    THEN "Looking left" ELSE "Looking right"
HorizontalWord(th, end_horizontal) ==
    IF Above(end_horizontal, th.hb) THEN "Looking left" ELSE "Looking right"
VerticalWordInverted(th, end_vertical) ==
    IF Above(end_vertical, th.vb) THEN "Looking down" ELSE "Looking up"
VerticalWord(th, end_vertical) ==
    IF Above(end_vertical, th.vb) THEN "Looking up" ELSE "Looking down"

\* The event appended by the horizontal closing branch.
HorizontalEvent(t, th, start, end_time) ==
    LET end_horizontal == voltage_0_smooth(t, NearestIndex(t.n, end_time))
    IN  <<start, end_time, "Action potential",
          <<"Horizontal: ", HorizontalWord(th, end_horizontal)>> >>

\* duration <= threshold_duration
IsBlinkStrict(duration) == duration < threshold_duration
IsBlink(duration) == duration <= threshold_duration

\* The event appended by the vertical closing branch.
VerticalEvent(t, th, start, end_time) ==
    LET duration == end_time - start
        end_vertical == voltage_smooth(t, NearestIndex(t.n, end_time))
        end_horizontal == voltage_0_smooth(t, NearestIndex(t.n, end_time))
    IN  IF IsBlink(duration)
        THEN <<start, end_time, "Blink", None>>
        ELSE <<start, end_time, "Action potential",
               <<"Vertical: ", VerticalWord(th, end_vertical)>>
               \o (IF DevGE(end_horizontal, th.hb, th.ht)
                   THEN <<", Horizontal: ", HorizontalWord(th, end_horizontal)>>
                   ELSE <<>>)>>

\* The detector state after closing an event.
ClosedWithoutReset(d, ev) ==
    [d EXCEPT !.events = Append(d.events, ev),
              !.last_event_end_time = Some(ev[2])]
ClosedKeepingStart(d, ev) ==
    [d EXCEPT !.events = Append(d.events, ev),
              !.last_event_end_time = Some(ev[2]),
              !.is_in_event = FALSE]
Closed(d, ev) ==
    [d EXCEPT !.events = Append(d.events, ev),
              !.last_event_end_time = Some(ev[2]),
              !.is_in_event = FALSE,
              !.start_time = None,
              !.triggering_type = None]

\* One iteration of the loop over the samples, at index k.
DetectorStep(d, t, th, k) ==
    LET current_time == Time(k)
        current_vertical == voltage_smooth(t, k)
        current_horizontal == voltage_0_smooth(t, k)
    IN  IF CooldownGate(d.last_event_end_time, current_time) THEN d
        ELSE IF EntryCondition(th, current_vertical, current_horizontal)
        THEN IF ~d.is_in_event
             THEN [d EXCEPT !.is_in_event = TRUE,
                            !.start_time = Some(current_time),
                            !.triggering_type =
                                Some(TriggeringType(th, current_vertical, current_horizontal))]
             ELSE d
        ELSE IF d.is_in_event
        THEN IF d.triggering_type = Some("horizontal") /\ HorizontalExit(th, current_horizontal)
             THEN Closed(d, HorizontalEvent(t, th, d.start_time[1], EndTime(current_time)))
             ELSE IF d.triggering_type = Some("vertical") /\ VerticalExit(th, current_vertical)
             THEN Closed(d, VerticalEvent(t, th, d.start_time[1], EndTime(current_time)))
             ELSE d
        ELSE d

\* The detector state before the first sample.
DetectorInit ==
    [events |-> <<>>, start_time |-> None, is_in_event |-> FALSE,
     last_event_end_time |-> None, triggering_type |-> None]

\* The events held when the loop over the samples has ended.
EventsAfterScanFlushed(d) ==
    IF d.is_in_event
    THEN Append(d.events, <<d.start_time[1], d.start_time[1], "Blink", None>>)
    ELSE d.events
EventsAfterScan(d) == d.events

(* ---------------- the tables the analysis is run on ---------------- *)
Table(cols, n, V, H, row) ==
    [readable |-> TRUE, columns |-> cols, n |-> n, V |-> V, H |-> H,
     vdc |-> row[1], hdc |-> row[2], vpos |-> row[3], hneg |-> row[4], hpos |-> row[5]]

\* First rows <<vertical dc, horizontal dc, vertical positive peak,
\* horizontal negative peak, horizontal positive peak>>.
StdRow == <<0, 0, 2, 1, 2>>
Rows == {StdRow, <<0, 0, 2, 2, 1>>, <<0, 0, 2, -3, 2>>, <<0, 0, 2, 0, 2>>,
         <<0, 0, 0, 1, 2>>, <<0, 0, -2, 1, 2>>, <<1, 1, 2, 1, 2>>}

VShort == {<<>>, <<Pulse(0, 0, 60)>>, <<Pulse(0, 24, 4)>>, <<Pulse(0, 24, -4)>>,
           <<Pulse(0, 24, 4), Pulse(33, 33, 60)>>,
           <<Pulse(0, 24, 4), Pulse(33, ShortLen, 60)>>, <<Pulse(30, ShortLen, 4)>>,
           <<Pulse(30, ShortLen - 8, 4)>>}
HShort == {<<>>, <<Pulse(0, 24, 8)>>, <<Pulse(0, 24, -8)>>, <<Pulse(0, ShortLen, 2)>>,
           <<Pulse(20, 30, 60)>>, <<Pulse(20, 20, 45)>>}
VLong == {<<>>, <<Pulse(0, 49, 4)>>, <<Pulse(0, 300, 4)>>, <<Pulse(0, 300, -4)>>,
          <<Pulse(0, 209, 4)>>, <<Pulse(0, 231, 4)>>, <<Pulse(0, 232, 4)>>,
          <<Pulse(0, 0, 60), Pulse(100, 110, 4), Pulse(226, 250, 4)>>,
          <<Pulse(0, 24, 4), Pulse(33, 300, 4)>>}
HLong == {<<>>, <<Pulse(0, 300, 8)>>, <<Pulse(0, 49, -8)>>, <<Pulse(0, LongLen, 2)>>,
          <<Pulse(40, 260, 8)>>, <<Pulse(40, 40, 60)>>}

UpperColumns == {Column(c[1], "upper") : c \in required_columns}
MixedColumns ==
    {Column(c[1], IF c[1] = "voltage" THEN "padded" ELSE "plain") : c \in required_columns}

ColumnSets ==
    {required_columns, UpperColumns, MixedColumns,
     required_columns \cup {Column("comment", "plain")}}
    \cup {required_columns \ {c} : c \in required_columns}
    \cup {UpperColumns \ {c} : c \in UpperColumns}
    \cup {{}}

Unreadable == [Table({}, 0, <<>>, <<>>, StdRow) EXCEPT !.readable = FALSE]

Tables ==
    {Table(required_columns, ShortLen, V, H, row) : V \in VShort, H \in HShort, row \in Rows}
    \cup {Table(required_columns, LongLen, V, H, row) : V \in VLong, H \in HLong, row \in Rows}
    \cup {Table(cols, ShortLen, <<Pulse(0, 0, 60)>>, <<>>, StdRow) : cols \in ColumnSets}
    \cup {Table(required_columns, 0, <<>>, <<>>, StdRow), Unreadable}

(* ---------------- analyze_and_plot, step by step ---------------- *)
Thresholds ==
    [vb |-> vertical_baseline, hb |-> horizontal_baseline,
     vt |-> vertical_threshold, ht |-> horizontal_threshold]

Detector ==
    [events |-> events, start_time |-> start_time, is_in_event |-> is_in_event,
     last_event_end_time |-> last_event_end_time, triggering_type |-> triggering_type]

DetInit ==
    /\ pc = "start"
    /\ tbl \in Tables
    /\ output_plot_path = "plot.png"
    /\ vertical_baseline = None /\ horizontal_baseline = None
    /\ vertical_threshold = None /\ horizontal_threshold = None
    /\ i = 0
    /\ start_time = None /\ is_in_event = FALSE
    /\ last_event_end_time = None /\ triggering_type = None
    /\ events = <<>>
    /\ plot_file = None
    /\ log_printed = FALSE
    /\ hist = <<>>
    /\ exits = 0

SesIdle ==
    /\ session_pc = "off"
    /\ default_output_path = None
    /\ choice = None
    /\ reported = None
    /\ session_plot = None

Init == DetInit /\ SesIdle

\* pd.read_excel and the cleaning of the column names.
ReadExcel ==
    /\ pc = "start"
    /\ IF tbl.readable
       THEN /\ pc' = "columns"
            /\ tbl' = [tbl EXCEPT !.columns = CleanColumns(tbl.columns)]
       ELSE /\ pc' = "raised"
            /\ tbl' = tbl
    /\ UNCHANGED <<output_plot_path, vertical_baseline, horizontal_baseline,
                   vertical_threshold, horizontal_threshold, i, start_time, is_in_event,
                   last_event_end_time, triggering_type, events, plot_file, log_printed,
                   hist, exits>>
    /\ UNCHANGED sesVars

\* The check of the required columns.
CheckColumns ==
    /\ pc = "columns"
    /\ pc' = IF MissingColumns(tbl.columns) THEN "raised" ELSE "extract"
    /\ UNCHANGED <<tbl, output_plot_path, vertical_baseline, horizontal_baseline,
                   vertical_threshold, horizontal_threshold, i, start_time, is_in_event,
                   last_event_end_time, triggering_type, events, plot_file, log_printed,
                   hist, exits>>
    /\ UNCHANGED sesVars

\* Time column, smoothing, baselines, thresholds and the detector's variables.
\* .iloc[0] raises on a table without rows.
Extract ==
    /\ pc = "extract"
    /\ IF tbl.n = 0
       THEN /\ pc' = "raised"
            /\ UNCHANGED <<vertical_baseline, horizontal_baseline,
                           vertical_threshold, horizontal_threshold>>
       ELSE /\ pc' = "scan"
            /\ vertical_baseline' = tbl.vdc
            /\ horizontal_baseline' = tbl.hdc
            /\ vertical_threshold' = tbl.vpos
            /\ horizontal_threshold' = HorizontalThreshold(tbl.hneg, tbl.hpos)
    /\ events' = DetectorInit.events
    /\ start_time' = DetectorInit.start_time
    /\ is_in_event' = DetectorInit.is_in_event
    /\ last_event_end_time' = DetectorInit.last_event_end_time
    /\ triggering_type' = DetectorInit.triggering_type
    /\ UNCHANGED <<tbl, output_plot_path, i, plot_file, log_printed, hist, exits>>
    /\ UNCHANGED sesVars

\* One iteration of "for i in range(len(data))".
ScanStep ==
    /\ pc = "scan"
    /\ i < tbl.n
    /\ LET d == DetectorStep(Detector, tbl, Thresholds, i)
           closing == is_in_event /\ ~d.is_in_event
       IN  /\ events' = d.events
           /\ start_time' = d.start_time
           /\ is_in_event' = d.is_in_event
           /\ last_event_end_time' = d.last_event_end_time
           /\ triggering_type' = d.triggering_type
           /\ hist' = IF closing
                      THEN Append(hist, [trig |-> triggering_type[1],
                                         open |-> start_time[1] \div time_interval,
                                         close |-> i])
                      ELSE hist
           /\ exits' = IF closing THEN exits + 1 ELSE exits
    /\ i' = i + 1
    /\ UNCHANGED <<pc, tbl, output_plot_path, vertical_baseline, horizontal_baseline,
                   vertical_threshold, horizontal_threshold, plot_file, log_printed>>
    /\ UNCHANGED sesVars

\* The name start_time after "for start_time, end_time, event, direction in
\* events": the start of the last event, if there is one.
LoopVariable(evs, start) == IF evs = <<>> THEN start ELSE Some(evs[Len(evs)][1])

\* The loop has ended: the plot is drawn, the loop over the events rebinds
\* start_time, and the plot is saved; savefig may fail.
Plot ==
    /\ pc = "scan"
    /\ i = tbl.n
    /\ events' = EventsAfterScan(Detector)
    /\ start_time' = LoopVariable(EventsAfterScan(Detector), start_time)
    /\ \E saved \in BOOLEAN :
          IF saved
          THEN pc' = "print" /\ plot_file' = Some(output_plot_path)
          ELSE pc' = "raised" /\ plot_file' = plot_file
    /\ UNCHANGED <<tbl, output_plot_path, vertical_baseline, horizontal_baseline,
                   vertical_threshold, horizontal_threshold, i, is_in_event,
                   last_event_end_time, triggering_type, log_printed, hist, exits>>
    /\ UNCHANGED sesVars

\* The event list is printed and the function returns.
PrintEvents ==
    /\ pc = "print"
    /\ pc' = "returned"
    /\ log_printed' = TRUE
    /\ UNCHANGED <<tbl, output_plot_path, vertical_baseline, horizontal_baseline,
                   vertical_threshold, horizontal_threshold, i, start_time, is_in_event,
                   last_event_end_time, triggering_type, events, plot_file, hist, exits>>
    /\ UNCHANGED sesVars

Next == ReadExcel \/ CheckColumns \/ Extract \/ ScanStep \/ Plot \/ PrintEvents

Spec == Init /\ [][Next]_vars

(* ---------------- analyze_and_plot as one call ---------------- *)
\* The loop over the positions lo..hi, from detector state d; the range is
\* run as its first half followed by its second half.  (The state reached
\* so far is bound by a quantifier so that it is computed once.)
RECURSIVE RunScan(_, _, _, _, _)
RunScan(d, t, th, lo, hi) ==
    IF lo > hi THEN d
    ELSE IF lo = hi THEN DetectorStep(d, t, th, lo)
    ELSE LET mid == (lo + hi) \div 2
         IN  CHOOSE r \in {RunScan(first, t, th, mid + 1, hi) :
                              first \in {RunScan(d, t, th, lo, mid)}} : TRUE

Raised == [raised |-> TRUE, plot_file |-> None, log_printed |-> FALSE, events |-> <<>>]

\* The outcome of analyze_and_plot(file, path); saved tells whether savefig
\* can write the path.
AnalyzeAndPlot(t, path, saved) ==
    IF ~t.readable THEN Raised
    ELSE IF MissingColumns(CleanColumns(t.columns)) THEN Raised
    ELSE IF t.n = 0 THEN Raised
    ELSE LET th == [vb |-> t.vdc, hb |-> t.hdc, vt |-> t.vpos,
                    ht |-> HorizontalThreshold(t.hneg, t.hpos)]
             d == RunScan(DetectorInit, t, th, 0, t.n - 1)
         IN  IF ~saved THEN Raised
             ELSE [raised |-> FALSE, plot_file |-> Some(path), log_printed |-> TRUE,
                   events |-> EventsAfterScan(d)]

(* ---------------- main: the session loop ---------------- *)
\* The files a user names in a session.
SessionFiles ==
    {Unreadable,
     Table(required_columns \ {Column("voltage_0 (negative peak)", "plain")},
           ShortLen, <<Pulse(0, 0, 60)>>, <<>>, StdRow),
     Table(UpperColumns, ShortLen, <<Pulse(0, 0, 60)>>, <<>>, StdRow),
     Table(required_columns, ShortLen, <<>>, <<>>, StdRow)}
AskedPaths == {"a.png", "b.png"}
DefaultPaths == {"", "d1.png", "d2.png"}
OtherChoices == {"", "4", "exit"}

\* Python truth value of a string that may be None: None and "" are false.
TruthyPath(x) == x # None /\ x[1] # ""

\* The path analyze_and_plot is called with.
OutputPathAsked(default, asked) == asked
OutputPath(default, asked) == IF TruthyPath(default) THEN default[1] ELSE asked

\* try: analyze_and_plot(...)  except Exception as e: print(...)
\* Where the loop is after the call, and what it printed.
AfterAnalyzeUncaught(outcome) == IF outcome.raised THEN "crashed" ELSE "menu"
AfterAnalyze(outcome) == "menu"
AnalyzeReport(outcome) ==
    IF outcome.raised THEN Some("Error") ELSE Some("Detected Events")

DetOff ==
    /\ pc = "off"
    /\ tbl = Unreadable
    /\ output_plot_path = None
    /\ vertical_baseline = None /\ horizontal_baseline = None
    /\ vertical_threshold = None /\ horizontal_threshold = None
    /\ i = 0
    /\ start_time = None /\ is_in_event = FALSE
    /\ last_event_end_time = None /\ triggering_type = None
    /\ events = <<>>
    /\ plot_file = None
    /\ log_printed = FALSE
    /\ hist = <<>>
    /\ exits = 0

SessionInit ==
    /\ DetOff
    /\ session_pc = "menu"
    /\ default_output_path = None
    /\ choice = None
    /\ reported = None
    /\ session_plot = None

\* choice "1": the file is analysed; events and plot_file hold what the call
\* produced, session_plot the path it was called with.
Analyze ==
    /\ session_pc = "menu"
    /\ \E file \in SessionFiles, asked \in AskedPaths, saved \in BOOLEAN :
          LET path == OutputPath(default_output_path, asked)
              outcome == AnalyzeAndPlot(file, path, saved)
          IN  /\ choice' = Some("1")
              /\ tbl' = file
              /\ output_plot_path' = Some(path)
              /\ session_plot' = Some([asked |-> ~TruthyPath(default_output_path),
                                       path |-> path])
              /\ events' = outcome.events
              /\ plot_file' = outcome.plot_file
              /\ log_printed' = outcome.log_printed
              /\ reported' = AnalyzeReport(outcome)
              /\ session_pc' = AfterAnalyze(outcome)
    /\ UNCHANGED <<pc, vertical_baseline, horizontal_baseline, vertical_threshold,
                   horizontal_threshold, i, start_time, is_in_event, last_event_end_time,
                   triggering_type, hist, exits, default_output_path>>

\* choice "2"
SetDefaultPath ==
    /\ session_pc = "menu"
    /\ \E p \in DefaultPaths :
          /\ default_output_path' = Some(p)
          /\ reported' = Some("Default output path set")
    /\ choice' = Some("2")
    /\ UNCHANGED <<detVars, session_pc, session_plot>>

\* choice "3"
Exit ==
    /\ session_pc = "menu"
    /\ choice' = Some("3")
    /\ reported' = Some("Exiting")
    /\ session_pc' = "exited"
    /\ UNCHANGED <<detVars, default_output_path, session_plot>>

\* any other input
InvalidChoice ==
    /\ session_pc = "menu"
    /\ \E c \in OtherChoices : choice' = Some(c)
    /\ reported' = Some("Invalid choice")
    /\ UNCHANGED <<detVars, session_pc, default_output_path, session_plot>>

SessionNext == Analyze \/ SetDefaultPath \/ Exit \/ InvalidChoice

SessionSpec == SessionInit /\ [][SessionNext]_vars

(* ======================= the claims ======================= *)
\* The time of position k and the position of a sample time.
IndexOf(t) == t \div time_interval
\* The position nearest to a time, for times that are multiples of
\* time_interval or negative.
NearestTo(t) == IF t < 0 THEN 0 ELSE IndexOf(t)
Defined(k) == ~voltage_smooth(tbl, k).nan
Scanned == pc \in {"scan", "print", "returned"}
VDev(k, thr) == DevGE(voltage_smooth(tbl, k), tbl.vdc, thr)
HDev(k, thr) == DevGE(voltage_0_smooth(tbl, k), tbl.hdc, thr)

\* C1: consecutive emitted events are at least cooldown_time apart:
\* start_time(k+1) >= end_time(k) + 0.5 s, whatever end_time(k) is.
C1_CooldownBetweenEvents ==
    \A k \in 1..(Len(events) - 1) : events[k + 1][1] >= events[k][2] + cooldown_time

\* C2: every emitted event has end_time >= start_time.
C2_EndNotBeforeStart ==
    \A k \in 1..Len(events) : events[k][2] >= events[k][1]

\* C3: an emitted event that a vertical trigger opened is a Blink without
\* direction exactly when end_time - start_time <= 0.4 s, and otherwise an
\* Action potential with a direction, whatever the horizontal channel holds.
C3_VerticalKind ==
    \A k \in 1..Len(hist) :
        hist[k].trig = "vertical" =>
            IF events[k][2] - events[k][1] <= threshold_duration
            THEN events[k][3] = "Blink" /\ events[k][4] = None
            ELSE events[k][3] = "Action potential" /\ events[k][4] # None

\* C3 witness: a vertical event of exactly 0.4 s, a Blink, on a table whose
\* horizontal channel is not at rest.
C3_Witness ==
    \E k \in 1..Len(hist) :
        /\ hist[k].trig = "vertical"
        /\ events[k][2] - events[k][1] = threshold_duration
        /\ events[k][3] = "Blink"
        /\ tbl.H # <<>>

\* A vertical-only deflection: the event k was opened by the vertical
\* channel, the vertical entry condition holds from its opening sample up
\* to the sample before its closing sample and not at the closing sample,
\* and the horizontal deviation stays below 3 x horizontal_trigger.
VerticalOnly(k) ==
    /\ hist[k].trig = "vertical"
    /\ \A j \in hist[k].open..(hist[k].close - 1) : VDev(j, vertical_threshold)
    /\ ~VDev(hist[k].close, vertical_threshold)
    /\ \A j \in hist[k].open..hist[k].close : ~HDev(j, band_factor * horizontal_threshold)

\* The event is an Action potential looking up or down by the smoothed
\* vertical value at end_time.
UpOrDown(k) ==
    /\ events[k][3] = "Action potential"
    /\ Len(events[k][4]) >= 2
    /\ events[k][4][1] = "Vertical: "
    /\ events[k][4][2] =
          IF Above(voltage_smooth(tbl, NearestTo(events[k][2])), tbl.vdc)
          THEN "Looking up" ELSE "Looking down"

\* C4 as stated: a vertical-only deflection that holds for more than 0.4 s
\* from its opening sample to the first sample at which it no longer holds
\* is an Action potential looking up or down.
C4_Original ==
    \A k \in 1..Len(hist) :
        VerticalOnly(k) /\ Time(hist[k].close) - Time(hist[k].open) > threshold_duration
            => UpOrDown(k)

\* C4 amended: a vertical-only deflection that holds for more than 0.45 s
\* (threshold_duration + time_advance) from its opening sample to the first
\* sample at which it no longer holds is an Action potential looking up or
\* down; and an event opened by the vertical channel stays open only over
\* samples where an entry condition holds or the smoothed value is undefined.
C4_LongDeflection ==
    /\ \A k \in 1..Len(hist) :
          VerticalOnly(k)
          /\ Time(hist[k].close) - Time(hist[k].open) > threshold_duration + time_advance
              => UpOrDown(k)
    /\ pc = "scan" /\ i >= 1 /\ is_in_event /\ triggering_type = Some("vertical")
          => \/ ~Defined(i - 1)
             \/ VDev(i - 1, vertical_threshold)
             \/ HDev(i - 1, band_factor * horizontal_threshold)

\* C4 witness: a vertical-only deflection of more than 0.45 s was emitted,
\* looking down.
C4_Witness ==
    \E k \in 1..Len(hist) :
        /\ VerticalOnly(k)
        /\ Time(hist[k].close) - Time(hist[k].open) > threshold_duration + time_advance
        /\ events[k][4][2] = "Looking down"

\* C5: an emitted event that a horizontal trigger opened is an Action
\* potential whatever its duration, looking left when the smoothed
\* horizontal value at the sample nearest end_time is above the baseline
\* and looking right otherwise (equal, below or undefined).
C5_HorizontalEvent ==
    \A k \in 1..Len(hist) :
        hist[k].trig = "horizontal" =>
            /\ events[k][3] = "Action potential"
            /\ events[k][4] =
                  <<"Horizontal: ",
                    LET x == voltage_0_smooth(tbl, NearestTo(events[k][2]))
                    IN  IF ~x.nan /\ x.val > window_size * tbl.hdc
                        THEN "Looking left" ELSE "Looking right">>

\* C5 witness: a horizontal event shorter than 0.4 s whose value at end_time
\* equals the baseline, looking right.
C5_Witness ==
    \E k \in 1..Len(hist) :
        /\ hist[k].trig = "horizontal"
        /\ events[k][2] - events[k][1] <= threshold_duration
        /\ voltage_0_smooth(tbl, NearestTo(events[k][2])) = Num(window_size * tbl.hdc)
        /\ events[k][4][2] = "Looking right"

\* The scenario of C6: the horizontal channel rests at its baseline, the
\* vertical entry condition holds at the positions a..b and at no other,
\* and the smoothed value at b+1 is defined (and so below the trigger).
RestingHorizontal == tbl.H = <<>> /\ tbl.hdc = 0
DeflectionOver(a, b) ==
    /\ a <= b
    /\ \A j \in 0..(tbl.n - 1) : VDev(j, tbl.vpos) <=> (a <= j /\ j <= b)
    /\ Defined(b + 1)
\* The samples at which a vertical deviation starts and at which it stops:
\* the only candidates for the a and the b of DeflectionOver.
Deflected == {j \in 0..(tbl.n - 1) : VDev(j, tbl.vpos)}
RisingEdges == {j \in Deflected : (j - 1) \notin Deflected}
FallingEdges == {j \in Deflected : j <= tbl.n - 2 /\ (j + 1) \notin Deflected}
OneEvent(a, b) ==
    /\ Len(events) = 1
    /\ events[1][1] = Time(a)
    /\ events[1][2] = Time(b + 1) - time_advance

\* The two tables of the scenario, in units of 0.5 V: baselines 0, vertical
\* trigger 1.0, horizontal trigger 0.5, amplitude 2.0 held for the samples
\* 0..300 and for the 50 samples 0..49.
ScenarioLong == Table(required_columns, LongLen, <<Pulse(0, 300, 4)>>, <<>>, StdRow)
ScenarioShort == Table(required_columns, LongLen, <<Pulse(0, 49, 4)>>, <<>>, StdRow)
ScenarioEvents ==
    /\ tbl = ScenarioLong =>
          events = << <<14, 552, "Action potential", <<"Vertical: ", "Looking up">> >> >>
    /\ tbl = ScenarioShort =>
          events = << <<14, 50, "Blink", None>> >>

\* C6 as stated: with the horizontal channel at its baseline and a vertical
\* deviation >= vertical_trigger exactly over the samples a..b, the scan
\* ends with exactly one event, from the time of a to the time of b+1 minus
\* 0.05 s; the scenario tables end with one Action potential looking up
\* that ends at 0.552 s, and with one Blink without direction that ends at
\* 0.05 s.  (Stated for the tables whose horizontal trigger is the smaller
\* peak magnitude, so that a violation does not rest on how the trigger is
\* read.)
C6_Original ==
    pc = "returned" =>
        /\ RestingHorizontal /\ horizontal_threshold = Min(Abs(tbl.hneg), Abs(tbl.hpos)) =>
              \A a \in RisingEdges, b \in FallingEdges :
                  DeflectionOver(a, b) => OneEvent(a, b)
        /\ ScenarioEvents

\* C6 amended: the same, for a positive horizontal trigger.
C6_OneDeflection ==
    pc = "returned" =>
        /\ RestingHorizontal /\ horizontal_threshold > 0 =>
              \A a \in RisingEdges, b \in FallingEdges :
                  DeflectionOver(a, b) => OneEvent(a, b)
        /\ ScenarioEvents

\* C6 witness: the scan of the long scenario table has ended with its event.
C6_Witness ==
    /\ pc = "returned"
    /\ tbl = ScenarioLong
    /\ DeflectionOver(7, 300)
    /\ Len(events) = 1

\* The columns of the table do not hold every required name, once cleaned.
LacksColumn == tbl.readable /\ \E c \in required_columns : c \notin CleanColumns(tbl.columns)

\* C7: a table that lacks a required column makes the analysis fail before
\* a sample is scanned: no event, no plot file, no event list.
C7_MissingColumnFails ==
    LacksColumn =>
        /\ pc \in {"start", "columns", "raised"}
        /\ i = 0
        /\ events = <<>>
        /\ plot_file = None
        /\ ~log_printed

\* C7 witness: the analysis of a table that lacks only the column
\* voltage_0 (negative peak) has raised.
C7_Witness ==
    /\ pc = "raised"
    /\ tbl.readable
    /\ required_columns \ tbl.columns = {Column("voltage_0 (negative peak)", "plain")}

\* C8: the session runs until choice 3 is made: after an analysis, failed or
\* not, it is at the menu again, a failed analysis having been reported.
C8_SessionSurvives ==
    /\ session_pc \in {"menu", "exited"}
    /\ session_pc = "exited" <=> choice = Some("3")
    /\ choice = Some("1") /\ plot_file = None => reported = Some("Error")

\* C8 witness: after a default path was set, an analysis failed and the
\* session is at the menu.
C8_Witness ==
    /\ session_pc = "menu"
    /\ choice = Some("1")
    /\ reported = Some("Error")
    /\ default_output_path # None

\* C9: the horizontal trigger is the smaller of the magnitudes of the first
\* row's negative and positive peak.
C9_MinOfMagnitudes ==
    Scanned => horizontal_threshold = Min(Abs(tbl.hneg), Abs(tbl.hpos))

\* C10: the events emitted are as many as the exit transitions taken, and an
\* event still open when the scan has ended is not among them.
C10_OpenEventDropped ==
    /\ Len(events) = exits
    /\ pc = "scan" /\ i = tbl.n /\ is_in_event =>
          \A k \in 1..Len(events) : events[k][1] # start_time[1]

\* C10 witness: the analysis returned with one event emitted and another
\* still open.
C10_Witness ==
    /\ pc = "returned"
    /\ is_in_event
    /\ Len(events) = 1

\* The sample at position i is not skipped by the cooldown gate.
NotSkipped == ~CooldownGate(last_event_end_time, Time(i))
\* An iteration of the scan is taken.
Iteration == pc = "scan" /\ i < tbl.n /\ i' = i + 1
\* The entry conditions at position k, from the table's first row and the
\* smaller of its two horizontal peaks.
VEntryAt(k) == VDev(k, tbl.vpos)
HEntryAt(k) == HDev(k, band_factor * horizontal_threshold)

\* C11: at a sample the cooldown gate does not skip, an idle detector opens
\* an event if and only if the vertical deviation is >= vertical_trigger or
\* the horizontal deviation is >= 3 x horizontal_trigger, with start_time
\* the sample's time; a detector in an event opens none and keeps start_time
\* until the event is closed.
C11_OpensOnEntry ==
    [][Iteration =>
          /\ ~is_in_event /\ NotSkipped =>
                /\ is_in_event' <=> (VEntryAt(i) \/ HEntryAt(i))
                /\ is_in_event' => start_time' = Some(Time(i))
          /\ is_in_event /\ is_in_event' => start_time' = start_time]_vars

\* C11 witness: an event was opened at the last sample by the horizontal
\* entry condition alone, at a deviation of exactly 3 x horizontal_trigger.
C11_Witness ==
    /\ pc = "scan" /\ i >= 1
    /\ is_in_event
    /\ start_time = Some(Time(i - 1))
    /\ ~VEntryAt(i - 1)
    /\ voltage_0_smooth(tbl, i - 1) =
          Num(window_size * (tbl.hdc + band_factor * horizontal_threshold))

\* The position at which the open event was opened.
OpenedAt == IndexOf(start_time[1])

\* Both triggers are positive.
PositiveTriggers == Scanned /\ tbl.vpos > 0 /\ horizontal_threshold > 0

\* C12 as stated: the triggering channel of an event is horizontal when the
\* horizontal entry condition held alone at the opening sample, and vertical
\* otherwise, also when both entry conditions held there.  (Stated for
\* positive triggers, where neither entry condition holds everywhere.)
C12_Original ==
    PositiveTriggers =>
        /\ pc = "scan" /\ is_in_event =>
              triggering_type =
                  Some(IF HEntryAt(OpenedAt) /\ ~VEntryAt(OpenedAt)
                       THEN "horizontal" ELSE "vertical")
        /\ \A k \in 1..Len(hist) :
              hist[k].trig =
                  IF HEntryAt(hist[k].open) /\ ~VEntryAt(hist[k].open)
                  THEN "horizontal" ELSE "vertical"

\* C12 amended: the triggering channel is horizontal whenever the horizontal
\* entry condition held at the opening sample, also when the vertical one
\* held there too, and vertical otherwise.
C12_HorizontalFirst ==
    /\ pc = "scan" /\ is_in_event =>
          triggering_type =
              Some(IF HEntryAt(OpenedAt) THEN "horizontal" ELSE "vertical")
    /\ \A k \in 1..Len(hist) :
          hist[k].trig = IF HEntryAt(hist[k].open) THEN "horizontal" ELSE "vertical"

\* C12 witness: an event that both entry conditions opened was emitted as a
\* horizontal event.
C12_Witness ==
    \E k \in 1..Len(hist) :
        /\ HEntryAt(hist[k].open)
        /\ VEntryAt(hist[k].open)
        /\ hist[k].trig = "horizontal"
        /\ events[k][4][1] = "Horizontal: "

\* The event is still open after the iteration at position i - 1, a
\* position after the one it was opened at.
StillOpen(channel) ==
    /\ pc = "scan" /\ i >= 1
    /\ is_in_event /\ triggering_type = Some(channel)
    /\ OpenedAt < i - 1
\* Position k has smoothed values: it is not one of the first or the last
\* (window_size - 1) / 2 positions.
HalfWindow == (window_size - 1) \div 2
InsideWindow(k) == HalfWindow <= k /\ k <= tbl.n - 1 - HalfWindow
\* The exit bands at position k: deviations <= 3 x trigger.
VBandAt(k) == DevLE(voltage_smooth(tbl, k), tbl.vdc, band_factor * tbl.vpos)
HBandAt(k) == DevLE(voltage_0_smooth(tbl, k), tbl.hdc, band_factor * horizontal_threshold)
\* Neither entry condition holds at position k, whose values are defined.
AtRest(k) == InsideWindow(k) /\ ~VEntryAt(k) /\ ~HEntryAt(k)

\* C13 as stated: for a positive trigger, an open vertical event closes at
\* the first sample after its opening at which the vertical deviation is
\* <= 3 x vertical_trigger: it is not open after such a sample.
C13_Original ==
    StillOpen("vertical") /\ tbl.vpos > 0 => ~VBandAt(i - 1)

\* C13 amended: an open vertical event closes at the first sample after its
\* opening at which the vertical deviation is < vertical_trigger and the
\* horizontal deviation is < 3 x horizontal_trigger: it is not open after
\* such a sample, and the sample it was closed at is such a sample, inside
\* the exit band.
C13_VerticalClose ==
    /\ StillOpen("vertical") => ~AtRest(i - 1)
    /\ \A k \in 1..Len(hist) :
          hist[k].trig = "vertical" => AtRest(hist[k].close) /\ VBandAt(hist[k].close)

\* C13 witness: a vertical event is open after a sample, later than its
\* opening, whose vertical deviation is between 1 x and 3 x the trigger.
C13_Witness ==
    /\ StillOpen("vertical")
    /\ tbl.vpos > 0
    /\ VEntryAt(i - 1)
    /\ VBandAt(i - 1)

\* C14 as stated: an open horizontal event closes at the first sample after
\* its opening at which the horizontal deviation is <= 3 x
\* horizontal_trigger: it is not open after such a sample.
C14_Original ==
    StillOpen("horizontal") /\ PositiveTriggers => ~HBandAt(i - 1)

\* C14 amended: an open horizontal event closes at the first sample after
\* its opening at which the horizontal deviation is < 3 x horizontal_trigger
\* and the vertical deviation is < vertical_trigger: it is not open after
\* such a sample, and the sample it was closed at is such a sample.
C14_HorizontalClose ==
    /\ StillOpen("horizontal") => ~AtRest(i - 1)
    /\ \A k \in 1..Len(hist) :
          hist[k].trig = "horizontal" => AtRest(hist[k].close) /\ HBandAt(hist[k].close)

\* C14 witness: a horizontal event is open after a sample, later than its
\* opening, at which the horizontal deviation is below 3 x
\* horizontal_trigger and the vertical deviation is >= vertical_trigger.
C14_Witness ==
    /\ StillOpen("horizontal")
    /\ PositiveTriggers
    /\ ~HEntryAt(i - 1)
    /\ HBandAt(i - 1)
    /\ VEntryAt(i - 1)

\* The sample at position i is about to be skipped by the cooldown gate.
Skipping ==
    /\ pc = "scan" /\ i < tbl.n
    /\ CooldownGate(last_event_end_time, Time(i))

\* C15: whenever the cooldown gate skips a sample no event is open, and the
\* skipped iteration leaves the detector as it was.
C15_CooldownOnlyWhenIdle ==
    /\ [](Skipping => ~is_in_event)
    /\ [][Skipping /\ i' = i + 1 =>
            UNCHANGED <<is_in_event, start_time, triggering_type,
                        last_event_end_time, events>>]_vars

\* C15 witness: the gate skips a sample at which the vertical entry
\* condition holds: a detection is suppressed.
C15_Witness ==
    /\ Skipping
    /\ VEntryAt(i)
    /\ Len(events) = 1

\* The last action of the session was an analysis called with the default
\* path, without asking for a path.
WroteToDefault ==
    session_plot = Some([asked |-> FALSE, path |-> default_output_path[1]])
\* The last action of the session was an analysis that asked for the path.
AskedForPath == session_plot # None /\ session_plot[1].asked

\* C16 as stated: the default path starts unset, and an analysis writes to
\* the default path when one has been set and asks for a path only when
\* none has been set.
C16_Original ==
    /\ choice = None => default_output_path = None
    /\ choice = Some("1") =>
          IF default_output_path # None THEN WroteToDefault ELSE AskedForPath

\* C16 amended: the default path starts unset and only the set-default-path
\* action changes it; an analysis writes to the default path when one has
\* been set and is not empty, and asks for a path when none has been set or
\* the one set is the empty string.
C16_DefaultPath ==
    /\ [](choice = None => default_output_path = None)
    /\ [](choice = Some("1") =>
            IF default_output_path # None /\ default_output_path[1] # ""
            THEN WroteToDefault ELSE AskedForPath)
    /\ [][default_output_path' # default_output_path => choice' = Some("2")]_vars

\* C16 witness: an analysis that failed has been called with the default
\* path d2.png.
C16_Witness ==
    /\ choice = Some("1")
    /\ reported = Some("Error")
    /\ default_output_path = Some("d2.png")
    /\ output_plot_path = Some("d2.png")

\* C17: at a sample with defined values that the gate does not skip, an
\* open event of either channel is closed if and only if both entry
\* conditions are false there.
C17_ClosesAtRest ==
    [][Iteration /\ is_in_event /\ InsideWindow(i) /\ NotSkipped =>
          (~is_in_event' <=> (~VEntryAt(i) /\ ~HEntryAt(i)))]_vars

\* C17 witness: a horizontal event was closed at the last sample, at a
\* horizontal deviation that is not zero, while an earlier sample inside the
\* band of 3 x horizontal_trigger had kept it open.
C17_Witness ==
    /\ pc = "scan" /\ i >= 2
    /\ hist # <<>>
    /\ hist[Len(hist)].trig = "horizontal"
    /\ hist[Len(hist)].close = i - 1
    /\ hist[Len(hist)].open < i - 2
    /\ voltage_0_smooth(tbl, i - 1) # Num(window_size * tbl.hdc)
    /\ HBandAt(i - 2)

\* seq is a prefix of seq2.
IsPrefix(seq, seq2) ==
    Len(seq) <= Len(seq2) /\ \A k \in 1..Len(seq) : seq[k] = seq2[k]

\* C18: during the scan, is_in_event holds exactly when start_time is set
\* and exactly when triggering_type is "horizontal" or "vertical"; while an
\* event stays open neither changes; and the list of events only grows at
\* its end.
C18_DetectorConsistent ==
    /\ [](pc = "scan" =>
            /\ is_in_event <=> start_time # None
            /\ is_in_event <=> triggering_type \in {Some("horizontal"), Some("vertical")}
            /\ ~is_in_event <=> triggering_type = None)
    /\ [][/\ Iteration /\ is_in_event /\ is_in_event' =>
                start_time' = start_time /\ triggering_type' = triggering_type
          /\ IsPrefix(events, events')
          /\ Len(events') <= Len(events) + 1]_vars

\* C18 witness: after one event was emitted a second one is open, opened
\* before the last sample.
C18_Witness ==
    /\ pc = "scan" /\ i >= 2
    /\ Len(events) = 1
    /\ is_in_event
    /\ start_time # None
    /\ start_time[1] < Time(i - 1)

\* The raw vertical value at position k, in units of 0.5 V.
RawVertical(k) == WindowSum(tbl.V, k, k)

\* C19: the first 7 and the last 7 samples, whose smoothed values are
\* undefined, neither open nor close an event whatever the raw values there:
\* an iteration at such a sample leaves the detector and the events as they
\* are, every emitted event was opened and closed at a sample with smoothed
\* values, and so was every open event opened.
C19_EdgesInert ==
    /\ [](/\ \A k \in 1..Len(hist) :
                InsideWindow(hist[k].open) /\ InsideWindow(hist[k].close)
          /\ pc = "scan" /\ is_in_event => InsideWindow(OpenedAt)
          /\ Scanned => \A k \in 1..Len(events) : events[k][1] >= Time(HalfWindow))
    /\ [][Iteration /\ ~InsideWindow(i) =>
              /\ is_in_event' = is_in_event
              /\ start_time' = start_time
              /\ triggering_type' = triggering_type
              /\ events' = events]_vars

\* C19 witness: the scan has passed the last 7 samples, whose raw vertical
\* values are back at the baseline, with the event that the deflection
\* before them opened still open and nothing emitted.
C19_Witness ==
    /\ pc = "scan" /\ i = tbl.n
    /\ tbl.vpos > 0 /\ horizontal_threshold > 0
    /\ is_in_event /\ events = <<>>
    /\ InsideWindow(OpenedAt)
    /\ VEntryAt(tbl.n - 1 - HalfWindow)
    /\ \A k \in (tbl.n - HalfWindow)..(tbl.n - 1) : RawVertical(k) = tbl.vdc

\* The vertical trigger or the horizontal trigger read from the first row
\* is zero or negative.
NonPositiveTrigger == tbl.vpos <= 0 \/ tbl.hneg <= 0 \/ tbl.hpos <= 0

\* C20: with a zero or negative trigger the entry condition holds at every
\* sample with smoothed values, the event opened at the first of them is
\* open ever after, and the analysis emits no event, whatever the series.
C20_NoEventEver ==
    Scanned /\ NonPositiveTrigger =>
        /\ events = <<>>
        /\ Len(hist) = 0
        /\ pc = "scan" /\ i < tbl.n /\ InsideWindow(i) => VEntryAt(i) \/ HEntryAt(i)
        /\ pc = "scan" /\ InsideWindow(HalfWindow) /\ i > HalfWindow =>
              is_in_event /\ start_time = Some(Time(HalfWindow))
        /\ pc = "scan" /\ i <= HalfWindow => ~is_in_event

\* C20 witness: a table whose smaller horizontal peak is zero has been
\* analysed; its vertical deflection, which ends well before the series
\* does, left the event opened at the first defined sample open.
C20_Witness ==
    /\ pc = "returned"
    /\ tbl.vpos > 0 /\ tbl.hneg = 0
    /\ tbl.V = <<Pulse(0, 24, 4)>>
    /\ ~VEntryAt(tbl.n - 1 - HalfWindow)
    /\ events = <<>>
    /\ is_in_event /\ start_time = Some(Time(HalfWindow))

====
